---- MODULE Spec2Model ----
(***************************************************************************)
(* corr_dump_plot.py: load corr_dump.txt with np.loadtxt, slice columns,   *)
(* build three matplotlib figures, show them.  The script is one straight  *)
(* line of statements; pc is the statement about to run, ns the module     *)
(* namespace (names bound so far), figs the figures built so far.          *)
(*                                                                         *)
(* Numbers are binary floating point values m * 2^e rounded to nearest,    *)
(* ties to even, as float64 is, with the significand cut to Precision bits.*)
(***************************************************************************)
EXTENDS Integers, Sequences, FiniteSets, TLC

VARIABLES file, pc, ns, figs, shows, err

vars == <<file, pc, ns, figs, shows, err>>

\* Bounds of the model.
MaxRows == 3
Precision == 12

----------------------------------------------------------------------------
\* Floating point arithmetic

Abs(x) == IF x < 0 THEN -x ELSE x

Sign(x) == IF x < 0 THEN -1 ELSE 1

RECURSIVE BitLen(_)
BitLen(n) == IF n = 0 THEN 0 ELSE 1 + BitLen(n \div 2)

\* The unique representation of m * 2^e: m odd, or m = 0 and e = 0.
RECURSIVE Canon(_, _)
Canon(m, e) ==
  IF m = 0 THEN [m |-> 0, e |-> 0]
  ELSE IF m % 2 = 0 THEN Canon(m \div 2, e + 1)
  ELSE [m |-> m, e |-> e]

\* m * 2^e rounded to Precision significant bits, ties to even.
Round(m, e) ==
  LET a == Abs(m)
      s == BitLen(a) - Precision
  IN  IF s <= 0 THEN Canon(m, e)
      ELSE LET q    == a \div (2^s)
               rem  == a % (2^s)
               half == 2^(s - 1)
               up   == rem > half \/ (rem = half /\ q % 2 = 1)
           IN  Canon(Sign(m) * (IF up THEN q + 1 ELSE q), e + s)

Zero == [m |-> 0, e |-> 0]

FromInt(n) == Round(n, 0)

Multiply(a, b) == Round(a.m * b.m, a.e + b.e)

Add(a, b) ==
  LET e == IF a.e < b.e THEN a.e ELSE b.e
  IN  IF a.m = 0 THEN b
      ELSE IF b.m = 0 THEN a
      ELSE Round(a.m * 2^(a.e - e) + b.m * 2^(b.e - e), e)

\* a / n for a count n >= 1; the remainder is kept as a sticky bit below
\* the rounding position.
Divide(a, n) ==
  LET k == Precision + 3
      M == Abs(a.m) * 2^k
      q == M \div n
      sticky == IF M % n = 0 THEN 0 ELSE 1
  IN  Round(Sign(a.m) * (2 * q + sticky), a.e - k - 1)

RECURSIVE ISqrtBits(_, _, _)
ISqrtBits(n, s, bit) ==
  IF bit = 0 THEN s
  ELSE IF (s + bit) * (s + bit) <= n THEN ISqrtBits(n, s + bit, bit \div 2)
  ELSE ISqrtBits(n, s, bit \div 2)

\* floor of the square root of n, 0 <= n < 2^30
ISqrt(n) == ISqrtBits(n, 0, 2^14)

\* np.sqrt of a >= 0.
Sqrt(a) ==
  IF a.m = 0 THEN Zero
  ELSE LET need == 2 * Precision + 2 - BitLen(a.m)
           k0   == IF need < 0 THEN 0 ELSE need
           k    == IF (a.e - k0) % 2 = 0 THEN k0 ELSE k0 + 1
           M    == a.m * 2^k
           s    == ISqrt(M)
           sticky == IF s * s = M THEN 0 ELSE 1
       IN  Round(2 * s + sticky, ((a.e - k) \div 2) - 1)

----------------------------------------------------------------------------
\* np.cos(np.deg2rad(d)) and np.sin(np.deg2rad(d)) for d = 0, 5, ..., 360:
\* the float64 results, entry d/5 + 1 being <<m, e>> for m * 2^e.  The
\* float64 nearest to 2*pi is not 2*pi, so sin at 360 degrees is not 0.

CosTable ==
  << <<1, 0>>, <<133706989, -27>>, <<1057429273, -30>>, <<1037154959, -30>>,
     <<1008987269, -30>>, <<30410643, -25>>, <<929887697, -30>>, <<439778905, -29>>,
     <<411266979, -29>>, <<759250125, -30>>, <<172546985, -28>>, <<615873009, -30>>,
     <<1, -1>>, <<453782903, -30>>, <<734482665, -31>>, <<555809667, -31>>,
     <<186453311, -30>>, <<374331065, -32>>, <<296101427, -82>>, <<-374331065, -32>>,
     <<-186453311, -30>>, <<-555809667, -31>>, <<-734482665, -31>>, <<-453782903, -30>>,
     <<-1, -1>>, <<-615873009, -30>>, <<-172546985, -28>>, <<-759250125, -30>>,
     <<-411266979, -29>>, <<-439778905, -29>>, <<-929887697, -30>>, <<-30410643, -25>>,
     <<-1008987269, -30>>, <<-1037154959, -30>>, <<-1057429273, -30>>, <<-133706989, -27>>,
     <<-1, 0>>, <<-133706989, -27>>, <<-1057429273, -30>>, <<-1037154959, -30>>,
     <<-1008987269, -30>>, <<-30410643, -25>>, <<-929887697, -30>>, <<-439778905, -29>>,
     <<-411266979, -29>>, <<-759250125, -30>>, <<-172546985, -28>>, <<-615873009, -30>>,
     <<-1, -1>>, <<-453782903, -30>>, <<-734482665, -31>>, <<-555809667, -31>>,
     <<-186453311, -30>>, <<-374331065, -32>>, <<-888304281, -82>>, <<374331065, -32>>,
     <<186453311, -30>>, <<555809667, -31>>, <<734482665, -31>>, <<453782903, -30>>,
     <<1, -1>>, <<615873009, -30>>, <<172546985, -28>>, <<759250125, -30>>,
     <<411266979, -29>>, <<439778905, -29>>, <<929887697, -30>>, <<30410643, -25>>,
     <<1008987269, -30>>, <<1037154959, -30>>, <<1057429273, -30>>, <<133706989, -27>>,
     <<1, 0>> >>

SinTable ==
  << <<0, 0>>, <<374331065, -32>>, <<186453311, -30>>, <<555809667, -31>>,
     <<734482665, -31>>, <<453782903, -30>>, <<1, -1>>, <<615873009, -30>>,
     <<172546985, -28>>, <<759250125, -30>>, <<411266979, -29>>, <<439778905, -29>>,
     <<929887697, -30>>, <<30410643, -25>>, <<1008987269, -30>>, <<1037154959, -30>>,
     <<1057429273, -30>>, <<133706989, -27>>, <<1, 0>>, <<133706989, -27>>,
     <<1057429273, -30>>, <<1037154959, -30>>, <<1008987269, -30>>, <<30410643, -25>>,
     <<929887697, -30>>, <<439778905, -29>>, <<411266979, -29>>, <<759250125, -30>>,
     <<172546985, -28>>, <<615873009, -30>>, <<1, -1>>, <<453782903, -30>>,
     <<734482665, -31>>, <<555809667, -31>>, <<186453311, -30>>, <<374331065, -32>>,
     <<296101427, -81>>, <<-374331065, -32>>, <<-186453311, -30>>, <<-555809667, -31>>,
     <<-734482665, -31>>, <<-453782903, -30>>, <<-1, -1>>, <<-615873009, -30>>,
     <<-172546985, -28>>, <<-759250125, -30>>, <<-411266979, -29>>, <<-439778905, -29>>,
     <<-929887697, -30>>, <<-30410643, -25>>, <<-1008987269, -30>>, <<-1037154959, -30>>,
     <<-1057429273, -30>>, <<-133706989, -27>>, <<-1, 0>>, <<-133706989, -27>>,
     <<-1057429273, -30>>, <<-1037154959, -30>>, <<-1008987269, -30>>, <<-30410643, -25>>,
     <<-929887697, -30>>, <<-439778905, -29>>, <<-411266979, -29>>, <<-759250125, -30>>,
     <<-172546985, -28>>, <<-615873009, -30>>, <<-1, -1>>, <<-453782903, -30>>,
     <<-734482665, -31>>, <<-555809667, -31>>, <<-186453311, -30>>, <<-374331065, -32>>,
     <<-296101427, -80>> >>

\* The tables at the working precision.
CosRounded == [k \in 1..73 |-> Round(CosTable[k][1], CosTable[k][2])]

SinRounded == [k \in 1..73 |-> Round(SinTable[k][1], SinTable[k][2])]

CosDeg2Rad(d) == CosRounded[(d \div 5) + 1]

SinDeg2Rad(d) == SinRounded[(d \div 5) + 1]

----------------------------------------------------------------------------
\* The input file: it exists or not; its lines are sequences of
\* whitespace-separated tokens (a blank line has none).

Numeral ==
  [t \in {"0", "1", "2", "3", "4", "5", "7", "9", "25"} |->
     CASE t = "0" -> 0 [] t = "1" -> 1 [] t = "2" -> 2 [] t = "3" -> 3
       [] t = "4" -> 4 [] t = "5" -> 5 [] t = "7" -> 7 [] t = "9" -> 9
       [] t = "25" -> 25]

IsNumeric(t) == t \in DOMAIN Numeral

LineChoices ==
  { <<"0", "1", "0", "3", "4", "2", "0", "1", "25", "4">>,
    <<"1", "1", "0", "0", "5", "2", "0", "1", "25", "4">>,
    <<"2", "0", "0", "0", "0", "0", "0", "0", "0", "0">>,
    <<"3", "1", "1", "1", "1", "1", "0", "2", "7", "1">>,
    <<"4", "1", "0", "1", "0", "2", "0", "1", "1", "4">>,
    <<"5", "0", "1", "0", "1", "0", "2", "1", "9", "4">>,
    <<"7", "2", "0", "3", "4", "1", "0", "4", "9", "1">>,
    <<"7", "1", "0", "3", "4", "2", "0", "1", "25">>,
    <<"9", "1", "0", "0", "5", "2", "0", "1", "25", "4", "7">>,
    <<"1", "1", "0", "x", "4", "2", "0", "1", "25", "4">>,
    << >> }

RECURSIVE SeqsUpTo(_, _)
SeqsUpTo(S, n) ==
  IF n = 0 THEN { << >> }
  ELSE LET shorter == SeqsUpTo(S, n - 1)
       IN  shorter \cup { Append(q, x) : q \in shorter, x \in S }

Files ==
  { [exists |-> FALSE, lines |-> << >>] }
    \cup { [exists |-> TRUE, lines |-> L] : L \in SeqsUpTo(LineChoices, MaxRows) }

----------------------------------------------------------------------------
\* numpy

NonBlank(line) == Len(line) > 0

Squeeze(shape) == SelectSeq(shape, LAMBDA d : d # 1)

\* Variants of the row reader that differ from numpy's in one rule each.
Shortest(rows) ==
  CHOOSE n \in 0..12 : /\ \A i \in 1..Len(rows) : n <= Len(rows[i])
                       /\ \E i \in 1..Len(rows) : n = Len(rows[i])

ReadRowsTruncating(lines) ==
  LET rows == SelectSeq(lines, NonBlank)
      N    == Len(rows)
      ncol == IF N = 0 THEN 1 ELSE Shortest(rows)
  IN  IF \E i \in 1..N : \E j \in 1..Len(rows[i]) : ~IsNumeric(rows[i][j])
        THEN [raises |-> "ValueError"]
      ELSE [raises |-> "",
            value  |-> [shape |-> Squeeze(<<N, ncol>>),
                        data  |-> [i \in 1..N |->
                                     [j \in 1..ncol |-> FromInt(Numeral[rows[i][j]])]]]]

ReadRowsTenColumns(lines) ==
  LET rows == SelectSeq(lines, NonBlank)
      N    == Len(rows)
  IN  IF \E i \in 1..N : \E j \in 1..Len(rows[i]) : ~IsNumeric(rows[i][j])
        THEN [raises |-> "ValueError"]
      ELSE IF \E i \in 1..N : Len(rows[i]) # 10
        THEN [raises |-> "ValueError"]
      ELSE [raises |-> "",
            value  |-> [shape |-> Squeeze(<<N, IF N = 0 THEN 1 ELSE 10>>),
                        data  |-> [i \in 1..N |->
                                     [j \in 1..10 |-> FromInt(Numeral[rows[i][j]])]]]]

\* The text of an open file as an array (float, any whitespace, ndmin=0):
\* blank lines are skipped, every token is converted to a float, every row
\* must have as many tokens as the first one, and axes of length one are
\* squeezed out of the result; no rows give an empty array of one axis.
ReadRows(lines) ==
  LET rows == SelectSeq(lines, NonBlank)
      N    == Len(rows)
      ncol == IF N = 0 THEN 1 ELSE Len(rows[1])
  IN  IF \E i \in 1..N : \E j \in 1..Len(rows[i]) : ~IsNumeric(rows[i][j])
        THEN [raises |-> "ValueError"]
      ELSE IF \E i \in 1..N : Len(rows[i]) # ncol
        THEN [raises |-> "ValueError"]
      ELSE [raises |-> "",
            value  |-> [shape |-> Squeeze(<<N, ncol>>),
                        data  |-> [i \in 1..N |->
                                     [j \in 1..ncol |-> FromInt(Numeral[rows[i][j]])]]]]

loadtxtMissingAsEmpty(f) == IF f.exists THEN ReadRows(f.lines) ELSE ReadRows(<< >>)

\* np.loadtxt(path) with its defaults: opening a missing file raises.
loadtxt(f) ==
  IF ~f.exists THEN [raises |-> "FileNotFoundError"] ELSE ReadRows(f.lines)

\* a[:, c] with c counted from 0: an array of fewer than two axes cannot
\* take two indices, and c must be a column of a.
Column(a, c) ==
  IF Len(a.shape) < 2 \/ c >= a.shape[2]
  THEN [raises |-> "IndexError"]
  ELSE [raises |-> "", value |-> [i \in 1..a.shape[1] |-> a.data[i][c + 1]]]

arangeInclusiveStopMissed(start, stop, step) ==
  [k \in 1..((stop - start) \div step) |-> start + (k - 1) * step]

\* np.arange(start, stop, step) for step > 0
arange(start, stop, step) ==
  LET n == IF stop <= start THEN 0 ELSE (stop - start + step - 1) \div step
  IN  [k \in 1..n |-> start + (k - 1) * step]

RECURSIVE Sum(_, _)
Sum(a, n) == IF n = 0 THEN Zero ELSE Add(Sum(a, n - 1), a[n])

\* np.mean of a non-empty array
mean(a) == Divide(Sum(a, Len(a)), Len(a))

\* np.sqrt(i**2 + q**2), element by element
Magnitude(i, q) ==
  [n \in 1..Len(i) |-> Sqrt(Add(Multiply(i[n], i[n]), Multiply(q[n], q[n])))]

MeanRadius(i, q) == mean(Magnitude(i, q))

CircleI(rad, theta) == [k \in 1..Len(theta) |-> Multiply(rad, CosDeg2Rad(theta[k]))]

CircleQ(rad, theta) == [k \in 1..Len(theta) |-> Multiply(rad, SinDeg2Rad(theta[k]))]

\* plt.plot(x, y, fmt, label=...): one line of the current figure
Line(x, y, fmt, label) == [x |-> x, y |-> y, fmt |-> fmt, label |-> label]

----------------------------------------------------------------------------
\* The script

NoError == [kind |-> "", line |-> 0]

FollowingSkipsFigure3(p) ==
  CASE p = "load"       -> "dump_count"
    [] p = "dump_count" -> "powers"
    [] p = "powers"     -> "figure1"
    [] p = "figure1"    -> "prompt"
    [] p = "prompt"     -> "radius"
    [] p = "radius"     -> "circle"
    [] p = "circle"     -> "figure2"
    [] p = "figure2"    -> "show"
    [] p = "figure3"    -> "show"
    [] p = "show"       -> "done"

\* The statement after p in the script.
Following(p) ==
  CASE p = "load"       -> "dump_count"
    [] p = "dump_count" -> "powers"
    [] p = "powers"     -> "figure1"
    [] p = "figure1"    -> "prompt"
    [] p = "prompt"     -> "radius"
    [] p = "radius"     -> "circle"
    [] p = "circle"     -> "figure2"
    [] p = "figure2"    -> "figure3"
    [] p = "figure3"    -> "show"
    [] p = "show"       -> "done"

\* An exception nothing catches ends the run.
Raise(kind, line) ==
  /\ pc' = "error"
  /\ err' = [kind |-> kind, line |-> line]
  /\ UNCHANGED <<file, ns, figs, shows>>

Bind(names) ==
  /\ ns' = names @@ ns
  /\ pc' = Following(pc)
  /\ UNCHANGED <<file, figs, shows, err>>

Build(n, lines) ==
  /\ figs' = (n :> lines) @@ figs
  /\ pc' = Following(pc)
  /\ UNCHANGED <<file, ns, shows, err>>

Init ==
  /\ file \in Files
  /\ pc = "load"
  /\ ns = << >>
  /\ figs = << >>
  /\ shows = 0
  /\ err = NoError

\* line 18
Load ==
  /\ pc = "load"
  /\ LET got == loadtxt(file)
     IN  IF got.raises # "" THEN Raise(got.raises, 18)
         ELSE Bind("d0" :> got.value)

\* line 20
SliceDumpCount ==
  /\ pc = "dump_count"
  /\ LET c0 == Column(ns["d0"], 0)
     IN  IF c0.raises # "" THEN Raise(c0.raises, 20)
         ELSE Bind("t0" :> c0.value)

\* lines 23-25
SlicePowers ==
  /\ pc = "powers"
  /\ LET c8 == Column(ns["d0"], 8)
         c7 == Column(ns["d0"], 7)
         c9 == Column(ns["d0"], 9)
     IN  IF c8.raises # "" THEN Raise(c8.raises, 23)
         ELSE IF c7.raises # "" THEN Raise(c7.raises, 24)
         ELSE IF c9.raises # "" THEN Raise(c9.raises, 25)
         ELSE Bind(("p0" :> c8.value) @@ ("e0" :> c7.value) @@ ("l0" :> c9.value))

\* lines 28-36
Figure1 ==
  /\ pc = "figure1"
  /\ Build(1, << Line(ns["t0"], ns["p0"], "", "Prompt power"),
                 Line(ns["t0"], ns["e0"], "", "Early power"),
                 Line(ns["t0"], ns["l0"], "", "Late power") >>)

\* lines 39-40
SlicePrompt ==
  /\ pc = "prompt"
  /\ LET c3 == Column(ns["d0"], 3)
         c4 == Column(ns["d0"], 4)
     IN  IF c3.raises # "" THEN Raise(c3.raises, 39)
         ELSE IF c4.raises # "" THEN Raise(c4.raises, 40)
         ELSE Bind(("i0" :> c3.value) @@ ("q0" :> c4.value))

RadiusFromPromptPower ==
  /\ pc = "radius"
  /\ Bind("r" :> mean([n \in 1..Len(ns["p0"]) |-> Sqrt(ns["p0"][n])]))

\* line 42
Radius ==
  /\ pc = "radius"
  /\ Bind("r" :> MeanRadius(ns["i0"], ns["q0"]))

\* lines 43-45
Circle ==
  /\ pc = "circle"
  /\ LET th == arange(0, 361, 5)
     IN  Bind(("th" :> th) @@ ("ic" :> CircleI(ns["r"], th))
                @@ ("qc" :> CircleQ(ns["r"], th)))

\* lines 47-55; the label's r=... suffix is left out
Figure2 ==
  /\ pc = "figure2"
  /\ Build(2, << Line(ns["i0"], ns["q0"], ".", "Prompt I/Q"),
                 Line(ns["ic"], ns["qc"], "-", "Mean radius circle") >>)

\* lines 59-66
Figure3 ==
  /\ pc = "figure3"
  /\ Build(3, << Line(ns["t0"], ns["i0"], "", "I Prompt"),
                 Line(ns["t0"], ns["q0"], "", "Q Prompt") >>)

\* line 68
Show ==
  /\ pc = "show"
  /\ shows' = shows + 1
  /\ pc' = Following(pc)
  /\ UNCHANGED <<file, ns, figs, err>>

Next ==
  \/ Load
  \/ SliceDumpCount
  \/ SlicePowers
  \/ Figure1
  \/ SlicePrompt
  \/ Radius
  \/ Circle
  \/ Figure2
  \/ Figure3
  \/ Show

Spec == Init /\ [][Next]_vars

----------------------------------------------------------------------------
\* Vocabulary of the properties

Rows == SelectSeq(file.lines, NonBlank)

AllNumeric == \A i \in 1..Len(Rows) : \A j \in 1..Len(Rows[i]) : IsNumeric(Rows[i][j])

\* every non-empty line has exactly k numeric fields
Uniform(k) == AllNumeric /\ \A i \in 1..Len(Rows) : Len(Rows[i]) = k

\* two non-empty lines differ in their number of fields
Ragged == \E i, j \in 1..Len(Rows) : Len(Rows[i]) # Len(Rows[j])

ValidTable == file.exists /\ Len(Rows) >= 1 /\ Uniform(10)

Finished == pc \in {"done", "error"}

Bound(name) == name \in DOMAIN ns

Built == DOMAIN figs

\* column c (from 0) of the file as the floats its tokens denote
FileColumn(c) == [i \in 1..Len(Rows) |-> FromInt(Numeral[Rows[i][c + 1]])]

ParseFailure == pc = "error" /\ err = [kind |-> "ValueError", line |-> 18]

NothingBuilt == ns = << >> /\ Built = {} /\ shows = 0

\* C1: a file of exactly one valid 10-field row runs to the display step,
\* and every data series of the three figures holds exactly one point.
C1_SingleRowRuns ==
  (ValidTable /\ Len(Rows) = 1 /\ Finished) =>
    /\ pc = "done"
    /\ shows = 1
    /\ Built = {1, 2, 3}
    /\ \A s \in 1..3 : Len(figs[1][s].x) = 1 /\ Len(figs[1][s].y) = 1
    /\ Len(figs[2][1].x) = 1 /\ Len(figs[2][1].y) = 1
    /\ \A s \in 1..2 : Len(figs[3][s].x) = 1 /\ Len(figs[3][s].y) = 1

HasShortAmongFull ==
  /\ file.exists
  /\ \E i \in 1..Len(Rows) : Len(Rows[i]) = 9
  /\ \E i \in 1..Len(Rows) : Len(Rows[i]) = 10

\* C2: one 9-field row among 10-field rows makes the load fail with a parse
\* failure at line 18; no table is bound (neither truncated nor padded), no
\* figure is built and nothing is displayed.
C2_ShortRowAbortsLoad ==
  (HasShortAmongFull /\ pc # "load") => (ParseFailure /\ NothingBuilt)

C2_Witness == HasShortAmongFull /\ AllNumeric /\ pc = "error"

C8_MissingFileIsFatal ==
  (~file.exists /\ pc # "load") =>
    /\ pc = "error"
    /\ err = [kind |-> "FileNotFoundError", line |-> 18]
    /\ NothingBuilt
    /\ ~ENABLED Next

C8_Witness == ~file.exists /\ pc = "error"

\* C4: for every table of N >= 1 rows the power figure is handed column 8
\* as the prompt series, column 7 as the early series and column 9 as the
\* late series, each against column 0, element for element in file order.
C4_PowerSeriesAreColumns ==
  (ValidTable /\ Finished) =>
    /\ 1 \in Built
    /\ \A s \in 1..3 : figs[1][s].x = FileColumn(0)
    /\ figs[1][1].y = FileColumn(8)
    /\ figs[1][2].y = FileColumn(7)
    /\ figs[1][3].y = FileColumn(9)

Negate(a) == [m |-> -a.m, e |-> a.e]

Magn(a) == [m |-> Abs(a.m), e |-> a.e]

Below(a, b) == Add(a, Negate(b)).m < 0

Scaled(a, k) == IF a.m = 0 THEN Zero ELSE [m |-> a.m, e |-> a.e + k]

CircleShape ==
  /\ Len(ns["th"]) = 73 /\ Len(ns["ic"]) = 73 /\ Len(ns["qc"]) = 73
  /\ \A k \in 0..72 : ns["th"][k + 1] = 5 * k

\* C5 as stated: the circle has 73 points, the k-th at 5*k degrees, and the
\* first and the last point are identical.
C5_CircleClosesExactly ==
  Bound("qc") =>
    /\ CircleShape
    /\ ns["ic"][1] = ns["ic"][73]
    /\ ns["qc"][1] = ns["qc"][73]

\* C5 amended: the circle has 73 points, the k-th at 5*k degrees; the first
\* and the last point have the same I coordinate, r, and Q coordinates 0 and
\* r*sin(deg2rad(360)), which differ by less than |r| * 2^-50 and are equal
\* only when r = 0.
C5_CircleClosesWithinRounding ==
  Bound("qc") =>
    /\ CircleShape
    /\ ns["ic"][1] = ns["r"]
    /\ ns["ic"][73] = ns["r"]
    /\ ns["qc"][1] = Zero
    /\ ns["qc"][73] = Zero <=> ns["r"] = Zero
    /\ ns["r"] # Zero => Below(Magn(ns["qc"][73]), Scaled(Magn(ns["r"]), -50))

C5_Witness == Bound("qc") /\ ns["r"] # Zero /\ ns["qc"][73] # ns["qc"][1]

\* i^2 + q^2 of row n of the file, in integers
PromptPowerOfRow(n) ==
  Numeral[Rows[n][4]] * Numeral[Rows[n][4]] + Numeral[Rows[n][5]] * Numeral[Rows[n][5]]

\* C6: when every row's prompt pair has the same magnitude m (the same
\* i^2 + q^2 = m^2), r equals m, for every number of rows N >= 1.
C6_EqualMagnitudesGiveThatRadius ==
  \A p \in 0..25 :
    (ValidTable /\ Finished /\ \A n \in 1..Len(Rows) : PromptPowerOfRow(n) = p) =>
      (Bound("r") /\ ns["r"] = Sqrt(FromInt(p)))

\* C9: when every prompt pair is (0,0) the run does not fail: r = 0, the 73
\* circle points are at the origin, the three figures are built and shown.
C9_ZeroPairsStillRender ==
  (ValidTable /\ Finished /\ \A n \in 1..Len(Rows) : PromptPowerOfRow(n) = 0) =>
    /\ pc = "done"
    /\ ns["r"] = Zero
    /\ Len(ns["ic"]) = 73 /\ Len(ns["qc"]) = 73
    /\ \A k \in 1..73 : ns["ic"][k] = Zero /\ ns["qc"][k] = Zero
    /\ Built = {1, 2, 3}
    /\ shows = 1

\* the lines that agree with line l on its number of fields and on fields
\* 3 and 4
SamePrompt(l) ==
  { x \in LineChoices : Len(x) = Len(l) /\ Len(x) >= 5 /\ x[4] = l[4] /\ x[5] = l[5] }

\* the tables of as many rows as rws that agree with it on columns 3 and 4
RECURSIVE Agreeing(_, _)
Agreeing(rws, n) ==
  IF n = 0 THEN { << >> }
  ELSE { Append(t, x) : t \in Agreeing(rws, n - 1), x \in SamePrompt(rws[n]) }

\* r and the circle the script's expressions give for a table
CircleOfTable(lines) ==
  LET d  == ReadRows(lines).value
      rr == MeanRadius(Column(d, 3).value, Column(d, 4).value)
      th == arange(0, 361, 5)
  IN  <<rr, CircleI(rr, th), CircleQ(rr, th)>>

\* C10: r and the circle depend on columns 3 and 4 only: every other table
\* of the same number of rows that agrees with the run's table on columns 3
\* and 4 gives the run's r and the run's 73 circle points, whatever its
\* other columns hold.
C10_CircleDependsOnPromptColumnsOnly ==
  Bound("qc") =>
    \A other \in Agreeing(Rows, Len(Rows)) \ {Rows} :
      CircleOfTable(other) = <<ns["r"], ns["ic"], ns["qc"]>>

C10_Witness ==
  /\ Bound("qc")
  /\ \E other \in Agreeing(Rows, Len(Rows)) \ {Rows} :
        \E n \in 1..Len(Rows) : other[n][9] # Rows[n][9]
  /\ \E n \in 1..Len(Rows) : FileColumn(8)[n] # FromInt(PromptPowerOfRow(n))

====
